---- MODULE Spec2Model ----
(***************************************************************************)
(* Model of the text-image bot: image_generator.py (find_thai_font and     *)
(* generate_text_image) and bot.py (handle_message).                       *)
(*                                                                         *)
(* Texts handed to the renderer are abstracted to their glyph counts; the  *)
(* imaging library's text measurement is a per-font glyph advance that is  *)
(* an arbitrary (not necessarily monotone) function of the font size.      *)
(***************************************************************************)
EXTENDS Integers, Sequences, FiniteSets, TLC

(* ------------------------------------------------------------------ *)
(* Program constants                                                    *)
(* ------------------------------------------------------------------ *)

\* number of entries of font_paths
NumFontPaths == 6
\* find_thai_font's fallback return value (Python None)
None == 0
\* "current_font_size -= 10"
Step == 10
\* "max(8, ...)": floor of the rescaled outline_width
OutlineFloor == 8
\* "max(10, ...)": floor of the rescaled line_spacing
SpacingFloor == 10

(* ------------------------------------------------------------------ *)
(* Bounds of the model                                                  *)
(* ------------------------------------------------------------------ *)

\* font_size ranges over 5 * (4..MaxFontK)
MaxFontK == 6
\* at most this many of the candidate font files exist on disk
MaxPresent == 1
\* longest inbound message, in characters
MaxLen == 4

\* input domains of generate_text_image
FontSizes == {5 * k : k \in 4..MaxFontK}
MinFontSizes(fs) == {5 * j : j \in 1..MaxFontK} \cap 1..fs
OutlineWidths == {0, 13, 16}
LineSpacings == {5, 20}
MaxWidths == {60, 120, 270}
\* glyph counts of line1 / line2, and the glyph advances a font may have
LineLens == {1, 2}
Advances == {50, 100}

VARIABLES
    exists,      \* the indices of font_paths whose file exists on disk
    adv,         \* font metrics: glyph advance per font size (0: the built-in default font)
    text,        \* [line1, line2]: glyph counts of the two lines
    style,       \* [font_size, min_font_size, outline_width, line_spacing]
    last,        \* the locals of the latest generate_text_image call (NoCall before any)
    prev,        \* the locals of the call before it
    msg,         \* bot: the text of the update being handled
    pc,          \* bot: position of handle_message
    req          \* bot: what the handler has done for this update

vars == <<exists, adv, text, style, last, prev, msg, pc, req>>
renderVars == <<exists, adv, text, style, last, prev>>
botVars == <<msg, pc, req>>

Max(a, b) == IF a >= b THEN a ELSE b

(* ------------------------------------------------------------------ *)
(* image_generator.py                                                   *)
(* ------------------------------------------------------------------ *)

\* mutant: falls back to the first candidate path instead of None
find_thai_font_first(ex) ==
    IF \E i \in 1..NumFontPaths : i \in ex
    THEN CHOOSE i \in 1..NumFontPaths : i \in ex /\ \A j \in 1..(i - 1) : j \notin ex
    ELSE 1

\* the first candidate path that exists, None when none does
find_thai_font(ex) ==
    IF \E i \in 1..NumFontPaths : i \in ex
    THEN CHOOSE i \in 1..NumFontPaths : i \in ex /\ \A j \in 1..(i - 1) : j \notin ex
    ELSE None

\* ImageFont.truetype(font_path, size)
truetype(path, size) == [kind |-> "truetype", path |-> path, size |-> size]
\* ImageFont.load_default()
load_default == [kind |-> "default", path |-> None, size |-> 0]
\* the local `font` before any assignment
Unbound == [kind |-> "unbound", path |-> None, size |-> 0]

\* bbox[2] - bbox[0] of temp_draw.textbbox((0, 0), line, font=font)
textwidth(metrics, len, font) == len * metrics[font.size]

\* mutant: comparison the wrong way round
FitsFlipped(max_text_width, outline_width, max_width) ==
    LET side_pad == outline_width * 2
    IN  max_text_width + side_pad * 2 >= max_width

\* "if max_text_width + side_pad * 2 <= max_width"
Fits(max_text_width, outline_width, max_width) ==
    LET side_pad == outline_width * 2
    IN  max_text_width + side_pad * 2 <= max_width

\* the while loop: the values of current_font_size and font when it ends
RECURSIVE FitLoop(_, _, _)
FitLoop(current_font_size, font, a) ==
    IF current_font_size >= a.min_font_size
    THEN IF a.font_path # None
         THEN LET f == truetype(a.font_path, current_font_size)
                  text1_width == textwidth(a.metrics, a.line1, f)
                  text2_width == textwidth(a.metrics, a.line2, f)
                  max_text_width == Max(text1_width, text2_width)
              IN  IF Fits(max_text_width, a.outline_width, a.max_width)
                  THEN [current_font_size |-> current_font_size, font |-> f]
                  ELSE FitLoop(current_font_size - Step, f, a)
         ELSE [current_font_size |-> current_font_size, font |-> load_default]
    ELSE [current_font_size |-> current_font_size, font |-> font]

\* mutant: rounds to nearest instead of truncating
PyIntRound(n, d) == (2 * n + d) \div (2 * d)

\* int(n / d) for d > 0: Python's int() truncates toward zero
PyInt(n, d) == IF n >= 0 THEN n \div d ELSE -((-n) \div d)

\* mutant: no floor
ScaledNoFloor(floor, orig, current_font_size, font_size) ==
    PyInt(orig * current_font_size, font_size)

\* "max(floor, int(orig * current_font_size / font_size))"
Scaled(floor, orig, current_font_size, font_size) ==
    Max(floor, PyInt(orig * current_font_size, font_size))

\* mutant: side padding added once
ImgWidthOnePad(text1_width, text2_width, outline_width) ==
    LET side_pad == outline_width * 2
    IN  Max(text1_width, text2_width) + side_pad

\* "img_width = max(text1_width, text2_width) + side_pad * 2"
ImgWidth(text1_width, text2_width, outline_width) ==
    LET side_pad == outline_width * 2
    IN  Max(text1_width, text2_width) + side_pad * 2

\* generate_text_image: its locals when it returns (or raises)
generate_text_image(line1, line2, st, max_width, ex, metrics) ==
    LET font_path == find_thai_font(ex)
        a == [line1 |-> line1, line2 |-> line2, font_path |-> font_path,
              metrics |-> metrics, min_font_size |-> st.min_font_size,
              outline_width |-> st.outline_width, max_width |-> max_width]
        fit == FitLoop(st.font_size, Unbound, a)
        current_font_size == fit.current_font_size
        font == fit.font
        reduced == current_font_size < st.font_size
        outline_width == IF reduced
                         THEN Scaled(OutlineFloor, st.outline_width, current_font_size, st.font_size)
                         ELSE st.outline_width
        line_spacing == IF reduced
                        THEN Scaled(SpacingFloor, st.line_spacing, current_font_size, st.font_size)
                        ELSE st.line_spacing
    IN  IF font = Unbound
        THEN \* the loop body never ran: reading `font` raises
             [outcome |-> "raise", font_path |-> font_path, max_width |-> max_width,
              current_font_size |-> current_font_size, font |-> font,
              outline_width |-> outline_width, line_spacing |-> line_spacing,
              text1_width |-> 0, text2_width |-> 0, img_width |-> 0]
        ELSE LET text1_width == textwidth(metrics, line1, font)
                 text2_width == textwidth(metrics, line2, font)
             IN  [outcome |-> "png", font_path |-> font_path, max_width |-> max_width,
                  current_font_size |-> current_font_size, font |-> font,
                  outline_width |-> outline_width, line_spacing |-> line_spacing,
                  text1_width |-> text1_width, text2_width |-> text2_width,
                  img_width |-> ImgWidth(text1_width, text2_width, outline_width)]

NoCall == [outcome |-> "none"]

\* the sizes the loop can try, and the default font's key
Ladder(fs, mn) == {s \in {fs - Step * k : k \in 0..MaxFontK} : s >= mn}

RenderInit ==
    /\ exists \in {e \in SUBSET (1..NumFontPaths) : Cardinality(e) <= MaxPresent}
    /\ \E fs \in FontSizes : \E mn \in MinFontSizes(fs) :
          /\ style \in [font_size : {fs}, min_font_size : {mn},
                        outline_width : OutlineWidths, line_spacing : LineSpacings]
          /\ adv \in [Ladder(fs, mn) \cup {0} -> Advances]
    /\ text \in [line1 : LineLens, line2 : LineLens]
    /\ last = NoCall
    /\ prev = NoCall

\* one call of generate_text_image with the budget max_width
Render(max_width) ==
    /\ last' = generate_text_image(text.line1, text.line2, style, max_width, exists, adv)
    /\ prev' = last
    /\ UNCHANGED <<exists, adv, text, style>>

(* ------------------------------------------------------------------ *)
(* bot.py                                                               *)
(* ------------------------------------------------------------------ *)

\* the characters a message is made of; " " and "\n" are whitespace
Chars == {"a", "b", " ", "\n"}
IsSpace(c) == c \in {" ", "\n"}

\* str.strip(): leading and trailing whitespace removed
RECURSIVE lstrip(_)
lstrip(s) == IF s # <<>> /\ IsSpace(Head(s)) THEN lstrip(Tail(s)) ELSE s
RECURSIVE rstrip(_)
rstrip(s) ==
    IF s # <<>> /\ IsSpace(s[Len(s)]) THEN rstrip(SubSeq(s, 1, Len(s) - 1)) ELSE s
strip(s) == lstrip(rstrip(s))

\* str.split('\n'): the pieces between line feeds (one piece when there is none)
RECURSIVE split(_)
split(s) ==
    IF \E i \in 1..Len(s) : s[i] = "\n"
    THEN LET i == CHOOSE k \in 1..Len(s) : s[k] = "\n" /\ \A h \in 1..(k - 1) : s[h] # "\n"
         IN  <<SubSeq(s, 1, i - 1)>> \o split(SubSeq(s, i + 1, Len(s)))
    ELSE <<s>>

\* mutant: rejects only when both lines are empty
EmptyLineBoth(line1, line2) == line1 = <<>> /\ line2 = <<>>

\* "if not line1 or not line2"
EmptyLine(line1, line2) == line1 = <<>> \/ line2 = <<>>

\* what the handler has done for the update, before it does anything
Fresh ==
    [line1 |-> <<>>, line2 |-> <<>>, usage |-> 0, processing |-> "none",
     renderCalls |-> 0, render |-> "none", document |-> "none",
     error |-> "none", logged |-> 0, escaped |-> FALSE]

Messages == UNION {[1..n -> Chars] : n \in 1..MaxLen}

\* handle_message on one update, up to its first await returning: validation,
\* then the usage reply or the "processing" reply; raises is whether that
\* reply_text call raised (the exception leaves the handler)
Validate(raises, m) ==
    /\ pc = "idle"
    /\ msg' = m
    /\ LET lines == split(strip(m))
           line1 == strip(lines[1])
           line2 == strip(lines[2])
       IN  IF Len(lines) < 2
           THEN /\ req' = [Fresh EXCEPT !.usage = 1, !.escaped = raises]
                /\ pc' = "done"
           ELSE IF EmptyLine(line1, line2)
           THEN /\ req' = [Fresh EXCEPT !.usage = 1, !.escaped = raises]
                /\ pc' = "done"
           ELSE /\ req' = [Fresh EXCEPT !.line1 = line1, !.line2 = line2,
                                        !.processing = IF raises THEN "failed" ELSE "shown",
                                        !.escaped = raises]
                /\ pc' = IF raises THEN "done" ELSE "render"
    /\ UNCHANGED renderVars

\* "image_bytes = generate_text_image(line1, line2)": returns or raises
CallRender(raises) ==
    /\ pc = "render"
    /\ req' = [req EXCEPT !.renderCalls = @ + 1,
                          !.render = IF raises THEN "raise" ELSE "ok"]
    /\ pc' = IF raises THEN "except" ELSE "document"
    /\ UNCHANGED <<msg>>
    /\ UNCHANGED renderVars

\* "await update.message.reply_document(...)"
ReplyDocument(raises) ==
    /\ pc = "document"
    /\ req' = [req EXCEPT !.document = IF raises THEN "failed" ELSE "delivered"]
    /\ pc' = IF raises THEN "except" ELSE "delete"
    /\ UNCHANGED <<msg>>
    /\ UNCHANGED renderVars

\* "await processing_msg.delete()"
DeleteProcessing(raises) ==
    /\ pc = "delete"
    /\ req' = [req EXCEPT !.processing = IF raises THEN @ ELSE "deleted"]
    /\ pc' = IF raises THEN "except" ELSE "done"
    /\ UNCHANGED <<msg>>
    /\ UNCHANGED renderVars

\* "except Exception as e": log, then edit the processing message into the
\* error text; raises is whether edit_text raised
Except(raises) ==
    /\ pc = "except"
    /\ req' = [req EXCEPT !.logged = @ + 1,
                          !.error = IF raises THEN "failed" ELSE "shown",
                          !.processing = IF raises THEN @ ELSE "edited",
                          !.escaped = raises]
    /\ pc' = "done"
    /\ UNCHANGED <<msg>>
    /\ UNCHANGED renderVars

BotInit ==
    /\ exists = {}
    /\ adv = <<>>
    /\ text = [line1 |-> 1, line2 |-> 1]
    /\ style = [font_size |-> 200, min_font_size |-> 60, outline_width |-> 16,
                line_spacing |-> 20]
    /\ last = NoCall
    /\ prev = NoCall
    /\ msg = <<>>
    /\ pc = "idle"
    /\ req = Fresh

BotNext ==
    \/ \E raises \in BOOLEAN : \E m \in Messages : Validate(raises, m)
    \/ \E raises \in BOOLEAN : CallRender(raises)
    \/ \E raises \in BOOLEAN : ReplyDocument(raises)
    \/ \E raises \in BOOLEAN : DeleteProcessing(raises)
    \/ \E raises \in BOOLEAN : Except(raises)

BotSpec == BotInit /\ [][BotNext]_vars

Init ==
    /\ RenderInit
    /\ msg = <<>>
    /\ pc = "idle"
    /\ req = Fresh

Next ==
    \E m \in MaxWidths : Render(m) /\ UNCHANGED botVars

Spec == Init /\ [][Next]_vars

(* ------------------------------------------------------------------ *)
(* Claims about generate_text_image (checked under Spec)                *)
(* ------------------------------------------------------------------ *)

Returned == last.outcome = "png"
Scalable == last.font_path # None
Reduced == last.current_font_size < style.font_size
\* the widest line measured with the font that is drawn
DrawnTextWidth ==
    Max(text.line1 * adv[last.font.size], text.line2 * adv[last.font.size])
\* the fit test of the loop at a size, for the budget of the latest call
FitsAt(s) ==
    Max(text.line1 * adv[s], text.line2 * adv[s]) + 4 * style.outline_width <= last.max_width
FittingSizes == {s \in Ladder(style.font_size, style.min_font_size) : FitsAt(s)}

\* C1: with a scalable font and min_font_size <= font_size, the value of
\* current_font_size after the fitting loop is never below min_font_size, and
\* the call still returns an image.
C1_FloorRespected ==
    (last.outcome # "none" /\ Scalable) =>
        /\ Returned
        /\ last.current_font_size >= style.min_font_size

\* C2: with a scalable font the chosen size is one of the tried sizes
\* font_size, font_size - 10, ... >= min_font_size, it is the largest of them
\* that passes the fit test when one does, it is strictly below the base size
\* when the base size does not fit, and the drawn font is loaded at it.
C2_LargestFittingChosen ==
    (Returned /\ Scalable) =>
        /\ last.current_font_size \in Ladder(style.font_size, style.min_font_size)
        /\ FittingSizes # {} =>
              /\ last.current_font_size \in FittingSizes
              /\ \A s \in FittingSizes : s <= last.current_font_size
        /\ ~FitsAt(style.font_size) => last.current_font_size < style.font_size
        /\ last.font = truetype(last.font_path, last.current_font_size)

\* C3 as stated: when the chosen size is below the base size, outline_width and
\* line_spacing are <= their input values and >= their floors 8 and 10.
C3_Original ==
    (Returned /\ Reduced) =>
        /\ last.outline_width <= style.outline_width
        /\ last.outline_width >= 8
        /\ last.line_spacing <= style.line_spacing
        /\ last.line_spacing >= 10

\* C3 amended: when the chosen size is below the base size, outline_width and
\* line_spacing are >= their floors 8 and 10 and <= the larger of their input
\* value and that floor (so <= the input whenever the input is >= the floor).
C3_ScaledWithinBounds ==
    (Returned /\ Reduced) =>
        /\ last.outline_width >= 8
        /\ last.outline_width <= Max(style.outline_width, 8)
        /\ last.line_spacing >= 10
        /\ last.line_spacing <= Max(style.line_spacing, 10)

\* a reduced call whose outline and spacing were scaled strictly down
C3_Witness ==
    /\ Returned /\ Reduced
    /\ last.outline_width < style.outline_width
    /\ last.line_spacing < style.line_spacing

\* C4: for fixed lines, metrics and style, a call with a smaller max_width
\* never chooses a larger font size than a call with a larger max_width.
C4_Monotone ==
    (prev.outcome = "png" /\ last.outcome = "png" /\ prev.max_width <= last.max_width) =>
        /\ prev.current_font_size <= last.current_font_size
        /\ prev.font.size <= last.font.size

\* two calls, the smaller budget giving a strictly smaller size, with a font
\* whose text width is not monotone in its size
C4_Witness ==
    /\ prev.outcome = "png" /\ last.outcome = "png"
    /\ prev.font_path # None
    /\ prev.max_width < last.max_width
    /\ prev.current_font_size < last.current_font_size
    /\ \E s \in DOMAIN adv : \E t \in DOMAIN adv : 0 < s /\ s < t /\ adv[s] > adv[t]

\* C5: the canvas width is >= the widest line measured with the drawn font
\* plus 4 times the outline width used for drawing.
C5_SidePadding ==
    Returned => last.img_width >= DrawnTextWidth + 4 * last.outline_width

\* a render at a reduced size with a rescaled, non-zero outline
C5_Witness ==
    /\ Returned /\ Scalable /\ Reduced
    /\ last.outline_width > 0
    /\ last.outline_width # style.outline_width

\* C6: when no candidate font file exists, find_thai_font returns None and the
\* call returns an image drawn with the default font, with the size equal to
\* the base size and outline_width and line_spacing unscaled.
C6_Fallback ==
    (exists = {} /\ last.outcome # "none") =>
        /\ last.font_path = None
        /\ Returned
        /\ last.font = load_default
        /\ last.current_font_size = style.font_size
        /\ last.outline_width = style.outline_width
        /\ last.line_spacing = style.line_spacing

\* no font file exists, and the text is wider than the budget the loop would
\* have enforced
C6_Witness ==
    /\ exists = {} /\ Returned
    /\ last.font = load_default
    /\ last.img_width > last.max_width

\* round to nearest, for n >= 0
RoundDiv(n, d) == (2 * n + d) \div (2 * d)

IsTruncated(q, n, d) ==
    IF n >= 0 THEN q * d <= n /\ n < (q + 1) * d
              ELSE q * d >= n /\ n > (q - 1) * d

C10_BudgetHonoured ==
    (Returned /\ Scalable /\ DrawnTextWidth + 4 * style.outline_width <= last.max_width) =>
        last.img_width <= last.max_width

(* ------------------------------------------------------------------ *)
(* Claims about handle_message (checked under BotSpec)                  *)
(* ------------------------------------------------------------------ *)

Finished == pc = "done"
Invoked == req.renderCalls >= 1
\* the lines of the raw message that are non-empty after trimming
NonEmptyLines(m) == {i \in 1..Len(split(m)) : strip(split(m)[i]) # <<>>}
\* the message, trimmed, has two lines and its first two are non-empty after trimming
FirstTwoNonEmpty(m) ==
    /\ Len(split(strip(m))) >= 2
    /\ strip(split(strip(m))[1]) # <<>>
    /\ strip(split(strip(m))[2]) # <<>>

ErrorIssued == req.error # "none"

\* C8: a message that passed validation ends with the renderer called exactly
\* once, the image delivered iff the render succeeded, an error message shown
\* iff the render failed, and never both.
C8_ExactlyOneOutcome ==
    (Finished /\ req.processing \notin {"none", "failed"}) =>
        /\ req.renderCalls = 1
        /\ req.document = "delivered" <=> req.render = "ok"
        /\ ErrorIssued <=> req.render = "raise"
        /\ ~(req.document = "delivered" /\ ErrorIssued)

====
